---- MODULE Spec2Model ----
(***************************************************************************)
(* fx_api/api.py: the FX client.  A client is constructed from a source    *)
(* and a target currency argument; each of its three query operations      *)
(* issues one HTTP GET per source currency, reshapes every JSON response   *)
(* into rows (date, source_currency, target_currency,                      *)
(* exchange_rate_to_target), appends them to FX_df, sorts and re-indexes.  *)
(*                                                                         *)
(* Python strings are sequences of one-character strings, so that          *)
(* startswith, split, strptime and the string order used by sort_values    *)
(* are computed on the characters.                                         *)
(***************************************************************************)
EXTENDS Integers, Sequences, FiniteSets, TLC

(***************************************************************************)
(* Bounds of the model.                                                    *)
(***************************************************************************)
\* longest source_currency list drawn from the currency codes
MaxSources == 2

(***************************************************************************)
(* Strings.                                                                *)
(***************************************************************************)
\* ord(c) for the characters that occur in the model
CharCode(c) ==
    CASE c = "-" -> 45 [] c = "." -> 46
      [] c = "0" -> 48 [] c = "1" -> 49 [] c = "2" -> 50 [] c = "3" -> 51
      [] c = "4" -> 52 [] c = "5" -> 53 [] c = "6" -> 54 [] c = "7" -> 55
      [] c = "8" -> 56 [] c = "9" -> 57
      [] c = "A" -> 65 [] c = "B" -> 66 [] c = "C" -> 67 [] c = "D" -> 68
      [] c = "E" -> 69 [] c = "G" -> 71 [] c = "J" -> 74 [] c = "P" -> 80
      [] c = "R" -> 82 [] c = "S" -> 83 [] c = "U" -> 85 [] c = "Y" -> 89
      [] c = "_" -> 95
      [] c = "a" -> 97 [] c = "b" -> 98 [] c = "c" -> 99 [] c = "d" -> 100
      [] c = "e" -> 101 [] c = "g" -> 103 [] c = "n" -> 110 [] c = "o" -> 111
      [] c = "r" -> 114 [] c = "s" -> 115 [] c = "t" -> 116 [] c = "u" -> 117
      [] c = "y" -> 121

\* Python's a < b on str: lexicographic by code point
RECURSIVE StrLess(_, _)
StrLess(a, b) ==
    IF b = <<>> THEN FALSE
    ELSE IF a = <<>> THEN TRUE
    ELSE IF Head(a) = Head(b) THEN StrLess(Tail(a), Tail(b))
    ELSE CharCode(Head(a)) < CharCode(Head(b))

\* str.startswith(prefix)
StartsWith(s, prefix) ==
    /\ Len(s) >= Len(prefix)
    /\ SubSeq(s, 1, Len(prefix)) = prefix

\* str.split(sep) for a one-character separator: the pieces between separators
RECURSIVE Split(_, _)
Split(s, sep) ==
    IF \A i \in 1..Len(s) : s[i] # sep THEN <<s>>
    ELSE LET i == CHOOSE j \in 1..Len(s) :
                      s[j] = sep /\ \A k \in 1..(j - 1) : s[k] # sep
         IN  <<SubSeq(s, 1, i - 1)>> \o Split(SubSeq(s, i + 1, Len(s)), sep)

IsDigit(c) == c \in {"0", "1", "2", "3", "4", "5", "6", "7", "8", "9"}

\* int() of a non-empty string of digits
RECURSIVE DigitsValue(_)
DigitsValue(s) ==
    IF s = <<>> THEN 0
    ELSE 10 * DigitsValue(SubSeq(s, 1, Len(s) - 1)) + (CharCode(s[Len(s)]) - 48)

\* calendar days of month m of year y (datetime's check inside strptime)
DaysInMonth(y, m) ==
    IF m = 2
    THEN IF (y % 4 = 0 /\ y % 100 # 0) \/ y % 400 = 0 THEN 29 ELSE 28
    ELSE IF m \in {4, 6, 9, 11} THEN 30 ELSE 31

\* dt.strptime(s, '%Y-%m-%d') returns (TRUE) or raises ValueError (FALSE):
\* %Y is four digits, %m one or two digits worth 1..12, %d one or two digits
\* worth 1..31, nothing may remain, and the day must exist in the month
Strptime(s) ==
    LET f == Split(s, "-") IN
    /\ Len(f) = 3
    /\ \A i \in 1..3 : f[i] # <<>> /\ \A j \in 1..Len(f[i]) : IsDigit(f[i][j])
    /\ Len(f[1]) = 4
    /\ Len(f[2]) <= 2
    /\ Len(f[3]) <= 2
    /\ DigitsValue(f[1]) >= 1
    /\ DigitsValue(f[2]) \in 1..12
    /\ DigitsValue(f[3]) >= 1
    /\ DigitsValue(f[3]) <= DaysInMonth(DigitsValue(f[1]), DigitsValue(f[2]))

(***************************************************************************)
(* Python values: t is the type, s the characters of a str, n the number   *)
(* of an int or a bool (True is 1), items the elements of a list or tuple. *)
(***************************************************************************)
PyStr(chars) == [t |-> "str", s |-> chars]
PyInt(k) == [t |-> "int", n |-> k]
PyBool(b) == [t |-> "bool", n |-> IF b THEN 1 ELSE 0]
PyNone == [t |-> "NoneType"]
PyList(elems) == [t |-> "list", items |-> elems]
PyTuple(elems) == [t |-> "tuple", items |-> elems]

\* isinstance(x, str)
IsStr(x) == x.t = "str"

\* bool(x), as `if target_currency:` evaluates it
Truthy(x) ==
    CASE x.t = "NoneType" -> FALSE
      [] x.t \in {"int", "bool"} -> x.n # 0
      [] x.t = "str" -> x.s # <<>>
      [] x.t \in {"list", "tuple"} -> x.items # <<>>

\* any(...) in place of all(...)
is_string_or_list_of_strings_any(obj) ==
    IF IsStr(obj) THEN TRUE
    ELSE IF obj.t = "list"
         THEN \E i \in 1..Len(obj.items) : IsStr(obj.items[i])
         ELSE FALSE

\* helpers.is_string_or_list_of_strings
is_string_or_list_of_strings(obj) ==
    IF IsStr(obj) THEN TRUE
    ELSE IF obj.t = "list"
         THEN \A i \in 1..Len(obj.items) : IsStr(obj.items[i])
         ELSE FALSE

(***************************************************************************)
(* JSON bodies (response.json()): a dict is the sequence of its entries    *)
(* [k, v] in document order, with pairwise distinct keys.                  *)
(***************************************************************************)
JStr(chars) == [kind |-> "str", s |-> chars]
JNum(k) == [kind |-> "num", n |-> k]
JDict(entries) == [kind |-> "dict", items |-> entries]

K_base == <<"b", "a", "s", "e">>
K_date == <<"d", "a", "t", "e">>
K_rates == <<"r", "a", "t", "e", "s">>
K_start_at == <<"s", "t", "a", "r", "t", "_", "a", "t">>
K_end_at == <<"e", "n", "d", "_", "a", "t">>
K_source_currency ==
    <<"s", "o", "u", "r", "c", "e", "_", "c", "u", "r", "r", "e", "n", "c", "y">>

(***************************************************************************)
(* pandas: a one-row frame is the sequence of its columns [name, value].   *)
(***************************************************************************)
\* pd.json_normalize of one dict: nested dicts are flattened into columns
\* named by the keys on the path joined with "."
RECURSIVE json_normalize(_, _)
json_normalize(entries, prefix) ==
    IF entries = <<>> THEN <<>>
    ELSE LET e == Head(entries) IN
         (IF e.v.kind = "dict"
          THEN json_normalize(e.v.items, prefix \o e.k \o <<".">>)
          ELSE <<[name |-> prefix \o e.k, value |-> e.v]>>)
         \o json_normalize(Tail(entries), prefix)

\* DataFrame.rename(columns={old: new})
Rename(frame, old, new) ==
    [j \in 1..Len(frame) |->
        IF frame[j].name = old THEN [frame[j] EXCEPT !.name = new] ELSE frame[j]]

ColumnNames(frame) == [j \in 1..Len(frame) |-> frame[j].name]

HasColumn(frame, name) == \E j \in 1..Len(frame) : frame[j].name = name

Cell(frame, name) ==
    frame[CHOOSE j \in 1..Len(frame) : frame[j].name = name].value

\* [col for col in temp_FX_df.columns if col.startswith("rates.")]
IsRatesColumn(col) == StartsWith(col, K_rates \o <<".">>)

ValueVars(frame) == SelectSeq(ColumnNames(frame), IsRatesColumn)

\* DataFrame.melt of a one-row frame: one long row per value column, in the
\* order of value_vars, carrying the id columns, the column's name and its cell
Melt(frame, id_vars, value_vars) ==
    [j \in 1..Len(value_vars) |->
        [ids |-> [k \in 1..Len(id_vars) |-> Cell(frame, id_vars[k])],
         variable |-> value_vars[j],
         value |-> Cell(frame, value_vars[j])]]

\* a row of the result: its index label and the four columns
Row(idx, date, source, target, rate) ==
    [index |-> idx, date |-> date, source_currency |-> source,
     target_currency |-> target, exchange_rate_to_target |-> rate]

\* .loc[:, [0]] in place of .loc[:, [1]]
LatestTargetPiece_first(variable) == Split(variable, ".")[1]

\* the piece of the split column name that becomes target_currency:
\* .str.split(".", expand=True).loc[:, [1]]
LatestTargetPiece(variable) == Split(variable, ".")[2]

\* get_FX_latest's reshape of one response body (api.py 120-131)
FlattenLatest(json) ==
    LET frame == Rename(json_normalize(json, <<>>), K_base, K_source_currency)
        long == Melt(frame, <<K_date, K_source_currency>>, ValueVars(frame))
    IN  [j \in 1..Len(long) |->
            Row(j - 1, long[j].ids[1].s, long[j].ids[2].s,
                LatestTargetPiece(long[j].variable), long[j].value.n)]

\* the date stamped on a row of get_FX_date: the melted "date" id column
DateOfDateRow(long_row, date) == long_row.ids[1].s

\* get_FX_date's reshape of one response body (api.py 208-219)
FlattenDate(json, date) ==
    LET frame == Rename(json_normalize(json, <<>>), K_base, K_source_currency)
        long == Melt(frame, <<K_date, K_source_currency>>, ValueVars(frame))
    IN  [j \in 1..Len(long) |->
            Row(j - 1, DateOfDateRow(long[j], date), long[j].ids[2].s,
                Split(long[j].variable, ".")[2], long[j].value.n)]

\* .loc[:, [2, 1]] in place of .loc[:, [1, 2]]
RangePieces_swapped(variable) ==
    LET pieces == Split(variable, ".") IN <<pieces[3], pieces[2]>>

\* the pieces of the split column name that become date and target_currency:
\* .str.split(".", expand=True).loc[:, [1, 2]]
RangePieces(variable) ==
    LET pieces == Split(variable, ".") IN <<pieces[2], pieces[3]>>

\* get_FX_date_range's reshape of one response body (api.py 308-319)
FlattenRange(json) ==
    LET frame == Rename(json_normalize(json, <<>>), K_base, K_source_currency)
        long == Melt(frame, <<K_source_currency>>, ValueVars(frame))
    IN  [j \in 1..Len(long) |->
            Row(j - 1, RangePieces(long[j].variable)[1], long[j].ids[1].s,
                RangePieces(long[j].variable)[2], long[j].value.n)]

\* an append that takes the rows of other twice
AppendIgnoreIndex_twice(df, other) ==
    LET rows == df \o other \o other IN
    [j \in 1..Len(rows) |-> [rows[j] EXCEPT !.index = j - 1]]

\* DataFrame.append(other, ignore_index=True): the rows of both, relabelled
AppendIgnoreIndex(df, other) ==
    LET rows == df \o other IN
    [j \in 1..Len(rows) |-> [rows[j] EXCEPT !.index = j - 1]]

\* the order of sort_values(by=["date", "source_currency", "target_currency"])
RowLess(a, b) ==
    \/ StrLess(a.date, b.date)
    \/ /\ a.date = b.date
       /\ \/ StrLess(a.source_currency, b.source_currency)
          \/ /\ a.source_currency = b.source_currency
             /\ StrLess(a.target_currency, b.target_currency)

\* insert r after the rows that do not come after it (the sort is stable)
InsertRow(sorted, r) ==
    LET later == {j \in 1..Len(sorted) : RowLess(r, sorted[j])}
        at == IF later = {} THEN Len(sorted) + 1
              ELSE CHOOSE j \in later : \A k \in later : j <= k
    IN  SubSeq(sorted, 1, at - 1) \o <<r>> \o SubSeq(sorted, at, Len(sorted))

\* a sort that leaves the rows where they are
sort_values_none(df) == df

\* DataFrame.sort_values(..., ascending=True, inplace=True): rows keep labels
RECURSIVE sort_values(_)
sort_values(df) ==
    IF df = <<>> THEN <<>>
    ELSE InsertRow(sort_values(SubSeq(df, 1, Len(df) - 1)), df[Len(df)])

\* DataFrame.reset_index(drop=True, inplace=True)
reset_index(df) == [j \in 1..Len(df) |-> [df[j] EXCEPT !.index = j - 1]]

\* the sort without the reset_index that follows it
SortAndReset_keep_labels(df) == sort_values(df)

\* the tail of every query operation (api.py 139-150)
SortAndReset(df) == reset_index(sort_values(df))

(***************************************************************************)
(* Class attributes of FX.                                                 *)
(***************************************************************************)
base_url == "https://api.exchangeratesapi.io"
limits_calls == 20
limits_period == 20
limits_max_tries == 10

(***************************************************************************)
(* Inputs: currency codes, dates, constructor and call arguments, and the  *)
(* bodies the upstream API may answer with.                                *)
(***************************************************************************)
GBP == <<"G", "B", "P">>
USD == <<"U", "S", "D">>
EUR == <<"E", "U", "R">>
JPY == <<"J", "P", "Y">>
CAD == <<"C", "A", "D">>

D13 == <<"2", "0", "2", "0", "-", "0", "3", "-", "1", "3">>
D14 == <<"2", "0", "2", "0", "-", "0", "3", "-", "1", "4">>
D16 == <<"2", "0", "2", "0", "-", "0", "3", "-", "1", "6">>
D17 == <<"2", "0", "2", "0", "-", "0", "3", "-", "1", "7">>
\* "2019-07-63", "2020-032-01" and "2020-03-176" of the tests
BadDay == <<"2", "0", "1", "9", "-", "0", "7", "-", "6", "3">>
BadMonth == <<"2", "0", "2", "0", "-", "0", "3", "2", "-", "0", "1">>
BadTail == <<"2", "0", "2", "0", "-", "0", "3", "-", "1", "7", "6">>

\* an argument the caller leaves out, so that the default applies
Omitted == [t |-> "omitted"]

SrcCodes == {GBP, USD}

\* the lists of currency codes of at most MaxSources elements
SourceLists == UNION {[1..n -> SrcCodes] : n \in 0..MaxSources}

StrList(codes) == PyList([j \in 1..Len(codes) |-> PyStr(codes[j])])

\* the other values tried as source_currency
OtherSourceArgs ==
    <<Omitted, PyStr(GBP), StrList(<<USD, GBP, EUR>>), PyInt(123), PyNone,
      PyList(<<PyStr(USD), PyStr(GBP), PyInt(567)>>),
      PyTuple(<<PyStr(USD), PyStr(GBP)>>)>>

\* the values tried as target_currency
TargetArgs ==
    <<Omitted, StrList(<<JPY, CAD>>), PyList(<<PyStr(JPY), PyBool(TRUE)>>),
      PyInt(0), PyInt(5)>>

\* the values tried as date
DateArgs == <<PyStr(D13), PyStr(D14), PyStr(BadDay), PyInt(2019)>>

\* the values tried as (start_at, end_at)
RangeArgs ==
    <<<<PyStr(D14), PyStr(D17)>>, <<PyStr(D17), PyStr(D13)>>,
      <<PyInt(123), PyStr(D17)>>, <<PyStr(BadMonth), PyStr(D17)>>,
      <<PyStr(D14), PyBool(FALSE)>>, <<PyStr(D14), PyStr(BadTail)>>,
      <<PyInt(123), PyStr(BadTail)>>>>

Entry(key, value) == [k |-> key, v |-> value]

\* the `date` and `rates` (target -> rate) of a /latest or /<date> answer
FlatRates ==
    {<<D14, <<Entry(JPY, JNum(3)), Entry(EUR, JNum(1))>>>>,
     <<D13, <<Entry(EUR, JNum(2))>>>>}

\* the `rates` of a /history answer: date -> target -> rate
NestedRates ==
    {<<Entry(D16, JDict(<<Entry(JPY, JNum(3)), Entry(EUR, JNum(1))>>)),
       Entry(D14, JDict(<<Entry(EUR, JNum(2))>>))>>,
     <<Entry(D13, JDict(<<Entry(EUR, JNum(4))>>))>>}

\* {"rates": {...}, "base": ..., "date": ...}
FlatBody(base, date, rates) ==
    <<Entry(K_rates, JDict(rates)), Entry(K_base, JStr(base)),
      Entry(K_date, JStr(date))>>

\* {"rates": {...}, "start_at": ..., "base": ..., "end_at": ...}
NestedBody(base, rates, start_at, end_at) ==
    <<Entry(K_rates, JDict(rates)), Entry(K_start_at, JStr(start_at)),
      Entry(K_base, JStr(base)), Entry(K_end_at, JStr(end_at))>>

FlatBodies ==
    {FlatBody(b, dr[1], dr[2]) : b \in SrcCodes, dr \in FlatRates}

NestedBodies(start_at, end_at) ==
    {NestedBody(b, r, start_at, end_at) : b \in SrcCodes, r \in NestedRates}

\* the body of an answer that reports an error
ErrorBody == <<Entry(<<"e", "r", "r", "o", "r">>, JStr(<<"b", "a", "d">>))>>

Answer(code, body) == [status |-> code, json |-> body]

(***************************************************************************)
(* State.                                                                  *)
(***************************************************************************)
VARIABLES
    pc,               \* "new", "init_failed", "idle", "wrapper", "loop", "done"
    arg_source,       \* the source_currency argument given to FX(...)
    arg_target,       \* the target_currency argument given to FX(...)
    source_currency,  \* self.source_currency
    target_currency,  \* self.target_currency
    op,               \* the query operation being called
    call_args,        \* its arguments
    tries,            \* attempts made by on_exception for this call
    url,              \* the local url of the query body
    FX_df,            \* the local master DataFrame of the query body
    i,                \* source currencies the loop has finished with
    requests,         \* the GET requests issued during this call
    responses,        \* the answers received during this call
    outcome,          \* how the call ended: "none", "table" or the exception
    result,           \* the DataFrame returned to the caller
    bodies,           \* how many times this call has started the query body
    num_calls,        \* per operation: num_calls of its limits decorator
    elapsed,          \* per operation: seconds since last_reset of its decorator
    gets              \* per operation: GETs issued in the decorator's open period

vars == <<pc, arg_source, arg_target, source_currency, target_currency, op,
          call_args, tries, url, FX_df, i, requests, responses, outcome, result,
          bodies, num_calls, elapsed, gets>>

Unset == [t |-> "unset"]

config == <<arg_source, arg_target, source_currency, target_currency>>

\* the state of the three limits decorators, made when the class is defined
\* and shared by every instance of FX
limiter == <<num_calls, elapsed, gets>>

Ops == {"get_FX_latest", "get_FX_date", "get_FX_date_range"}

Init ==
    /\ pc = "new"
    /\ arg_source = Unset
    /\ arg_target = Unset
    /\ source_currency = Unset
    /\ target_currency = Unset
    /\ op = "none"
    /\ call_args = <<>>
    /\ tries = 0
    /\ url = <<>>
    /\ FX_df = <<>>
    /\ i = 0
    /\ requests = <<>>
    /\ responses = <<>>
    /\ outcome = "none"
    /\ result = <<>>
    /\ bodies = 0
    /\ num_calls = [o \in Ops |-> 0]
    /\ elapsed = [o \in Ops |-> 0]
    /\ gets = [o \in Ops |-> 0]

(***************************************************************************)
(* FX.__init__ (api.py 48-76).                                             *)
(***************************************************************************)
\* the value a parameter takes: the argument, or the default when omitted
Param(arg, default) == IF arg.t = "omitted" THEN default ELSE arg

\* `if target_currency:` (api.py 63): whether the target is validated at all
TargetIsChecked(target) == Truthy(target)

\* whether __init__ raises TypeError (api.py 60-65)
InitRaises(source, target) ==
    \/ ~is_string_or_list_of_strings(source)
    \/ TargetIsChecked(target) /\ ~is_string_or_list_of_strings(target)

\* the attribute stored for a parameter (api.py 68-76)
Stored(value) == IF IsStr(value) THEN PyList(<<value>>) ELSE value

__init__(src, tgt) ==
    LET source == Param(src, PyStr(GBP))
        target == Param(tgt, PyNone)
    IN
    /\ pc = "new"
    /\ arg_source' = src
    /\ arg_target' = tgt
    /\ IF InitRaises(source, target)
       THEN /\ pc' = "init_failed"
            /\ UNCHANGED <<source_currency, target_currency>>
       ELSE /\ pc' = "idle"
            /\ source_currency' = Stored(source)
            /\ target_currency' = Stored(target)
    /\ UNCHANGED <<op, call_args, tries, url, FX_df, i, requests, responses,
                   outcome, result, bodies, limiter>>

Construct ==
    \/ \E l \in SourceLists, t \in 1..Len(TargetArgs) :
          __init__(StrList(l), TargetArgs[t])
    \/ \E s \in 1..Len(OtherSourceArgs), t \in 1..Len(TargetArgs) :
          __init__(OtherSourceArgs[s], TargetArgs[t])

(***************************************************************************)
(* The query operations (api.py 78-338).  Each is wrapped by               *)
(* on_exception(expo, RateLimitException, max_tries) around limits(...):   *)
(* an attempt is either rejected by the limiter before the body starts, or *)
(* runs the body.                                                          *)
(***************************************************************************)
\* a validation that checks the type and not the format
DateArgError_type_only(x) == IF ~IsStr(x) THEN "TypeError" ELSE "none"

\* the input validation of one date argument (api.py 169-175, 259-273)
DateArgError(x) ==
    IF ~IsStr(x) THEN "TypeError"
    ELSE IF ~Strptime(x.s) THEN "ValueError"
    ELSE "none"

\* the exception the input validation of the body raises, or "none"
ValidationError(o, args) ==
    CASE o = "get_FX_latest" -> "none"
      [] o = "get_FX_date" -> DateArgError(args[1])
      [] o = "get_FX_date_range" ->
            IF DateArgError(args[1]) # "none" THEN DateArgError(args[1])
            ELSE DateArgError(args[2])

\* the url of the query (api.py 90, 178, 276)
UrlOf(o, args) ==
    [base |-> base_url,
     path |-> CASE o = "get_FX_latest" -> <<"l", "a", "t", "e", "s", "t">>
                [] o = "get_FX_date" -> args[1].s
                [] o = "get_FX_date_range" ->
                      <<"h", "i", "s", "t", "o", "r", "y">>]

\* params that ask for the first source currency at every iteration
ParamsOf_first(o, args, source) ==
    IF o = "get_FX_date_range"
    THEN [base |-> source_currency.items[1], symbols |-> target_currency,
          start_at |-> args[1], end_at |-> args[2]]
    ELSE [base |-> source_currency.items[1], symbols |-> target_currency]

\* the params of the request for one source currency (api.py 106, 194, 292)
ParamsOf(o, args, source) ==
    IF o = "get_FX_date_range"
    THEN [base |-> source, symbols |-> target_currency,
          start_at |-> args[1], end_at |-> args[2]]
    ELSE [base |-> source, symbols |-> target_currency]

\* a check of the status that lets client errors through
RaisesForStatus_server_only(status) == status >= 500 /\ status < 600

\* response.raise_for_status() raises HTTPError
RaisesForStatus(status) == status >= 400 /\ status < 600

\* the answers the upstream may give to a request of the operation
Answers(o, args) ==
    {Answer(200, b) : b \in IF o = "get_FX_date_range"
                            THEN NestedBodies(args[1].s, args[2].s)
                            ELSE FlatBodies}
    \cup {Answer(400, ErrorBody)}

\* the columns the reshape of the operation needs: the id_vars of melt, and
\* at least one "rates." column with the pieces that .loc selects
FlattenRaises(o, json) ==
    LET frame == Rename(json_normalize(json, <<>>), K_base, K_source_currency)
        value_vars == ValueVars(frame)
    IN  \/ ~HasColumn(frame, K_source_currency)
        \/ o # "get_FX_date_range" /\ ~HasColumn(frame, K_date)
        \/ value_vars = <<>>
        \/ o = "get_FX_date_range"
           /\ \A j \in 1..Len(value_vars) : Len(Split(value_vars[j], ".")) < 3

\* the rows one response body contributes
Flatten(o, args, json) ==
    CASE o = "get_FX_latest" -> FlattenLatest(json)
      [] o = "get_FX_date" -> FlattenDate(json, args[1].s)
      [] o = "get_FX_date_range" -> FlattenRange(json)

\* the DataFrame a query returns when its requests are answered with the
\* bodies jsons, one per source currency in order (api.py 92-150)
RECURSIVE Gathered(_, _, _)
Gathered(o, args, jsons) ==
    IF jsons = <<>> THEN <<>>
    ELSE AppendIgnoreIndex(Gathered(o, args, SubSeq(jsons, 1, Len(jsons) - 1)),
                           Flatten(o, args, jsons[Len(jsons)]))

QueryTable(o, args, jsons) == SortAndReset(Gathered(o, args, jsons))

\* the caller calls a query operation of the client
StartCall(o, args) ==
    /\ pc = "idle"
    /\ pc' = "wrapper"
    /\ op' = o
    /\ call_args' = args
    /\ UNCHANGED <<config, tries, url, FX_df, i, requests, responses, outcome,
                   result, bodies, limiter>>

Call ==
    \/ StartCall("get_FX_latest", <<>>)
    \/ \E d \in 1..Len(DateArgs) : StartCall("get_FX_date", <<DateArgs[d]>>)
    \/ \E r \in 1..Len(RangeArgs) : StartCall("get_FX_date_range", RangeArgs[r])

\* the call ends: the exception propagates or the DataFrame is returned
Ends(kind, df) ==
    /\ pc' = "done"
    /\ outcome' = kind
    /\ result' = df

\* a handler that catches every exception
Retried_any(exception) == TRUE

\* on_exception(expo, RateLimitException, ...): the exceptions it catches
Retried(exception) == exception = "RateLimitException"

\* a count of the retries in place of the tries
MaxTriesExceeded_late(n) == n = limits_max_tries + 1

\* on_exception(..., max_tries=limits_max_tries): the n-th try was the last
MaxTriesExceeded(n) == n = limits_max_tries

\* an exception leaves the n-th try: on_exception sleeps and tries again when
\* it catches the exception and tries are left, and lets it propagate otherwise
Raises(exception, n) ==
    IF Retried(exception) /\ ~MaxTriesExceeded(n)
    THEN /\ pc' = "wrapper"
         /\ UNCHANGED <<outcome, result>>
    ELSE Ends(exception, <<>>)

\* a try the limits decorator rejects: it raises RateLimitException in place
\* of calling the body
Reject ==
    /\ pc = "wrapper"
    /\ tries' = tries + 1
    /\ Raises("RateLimitException", tries + 1)
    /\ UNCHANGED <<config, op, call_args, url, FX_df, i, requests, responses,
                   bodies>>

\* a try the limits decorator lets through: the body validates its input,
\* builds the url and the empty master DataFrame, and enters the loop
RunBody ==
    /\ pc = "wrapper"
    /\ tries' = tries + 1
    /\ bodies' = bodies + 1
    /\ IF ValidationError(op, call_args) # "none"
       THEN /\ Raises(ValidationError(op, call_args), tries + 1)
            /\ UNCHANGED <<url, FX_df, i>>
       ELSE /\ url' = UrlOf(op, call_args)
            /\ i' = 0
            /\ IF source_currency.items = <<>>
               THEN /\ FX_df' = SortAndReset(<<>>)
                    /\ Ends("table", SortAndReset(<<>>))
               ELSE /\ FX_df' = <<>>
                    /\ pc' = "loop"
                    /\ UNCHANGED <<outcome, result>>
    /\ UNCHANGED <<config, op, call_args, requests, responses>>

\* one iteration of the loop over self.source_currency, answered by one of
\* answers: the request, the check of its status, the reshape and the append;
\* after the last source currency the sort, the new index and the return
\* (api.py 103-150)
LoopStep(answers) ==
    /\ pc = "loop"
    /\ LET source == source_currency.items[i + 1]
           request == [url |-> url, params |-> ParamsOf(op, call_args, source)]
       IN
       \E response \in answers :
          /\ requests' = Append(requests, request)
          /\ responses' = Append(responses, response)
          /\ IF RaisesForStatus(response.status)
             THEN /\ Raises("HTTPError", tries)
                  /\ FX_df' = <<>>
                  /\ UNCHANGED i
             ELSE IF FlattenRaises(op, response.json)
             THEN /\ Raises("KeyError", tries)
                  /\ FX_df' = <<>>
                  /\ UNCHANGED i
             ELSE LET df == AppendIgnoreIndex(FX_df,
                                Flatten(op, call_args, response.json))
                  IN  /\ i' = i + 1
                      /\ IF i + 1 = Len(source_currency.items)
                         THEN /\ FX_df' = SortAndReset(df)
                              /\ Ends("table", SortAndReset(df))
                         ELSE /\ FX_df' = df
                              /\ UNCHANGED <<pc, outcome, result>>
    /\ UNCHANGED <<config, op, call_args, tries, bodies, url>>

(***************************************************************************)
(* Spec leaves the verdict of the limiter open: any try may be rejected or *)
(* let through, which covers every state of its counter and of the clock   *)
(* (calls by other instances included).                                    *)
(***************************************************************************)
\* a rejection that comes between two iterations of the loop
RateLimited_midloop ==
    /\ pc \in {"wrapper", "loop"}
    /\ tries' = IF pc = "wrapper" THEN tries + 1 ELSE tries
    /\ Raises("RateLimitException", tries')
    /\ UNCHANGED <<config, op, call_args, url, FX_df, i, requests, responses,
                   bodies, limiter>>

RateLimited == Reject /\ UNCHANGED limiter

Enter == RunBody /\ UNCHANGED limiter

Iterate == LoopStep(Answers(op, call_args)) /\ UNCHANGED limiter

\* the caller has taken the result or the exception; the locals are gone
Return ==
    /\ pc = "done"
    /\ pc' = "idle"
    /\ op' = "none"
    /\ call_args' = <<>>
    /\ tries' = 0
    /\ bodies' = 0
    /\ url' = <<>>
    /\ FX_df' = <<>>
    /\ i' = 0
    /\ requests' = <<>>
    /\ responses' = <<>>
    /\ outcome' = "none"
    /\ result' = <<>>
    /\ UNCHANGED <<config, limiter>>

Next == Construct \/ Call \/ RateLimited \/ Enter \/ Iterate \/ Return

Spec == Init /\ [][Next]_vars

\* the tries of a call go on (a sleep of the backoff ends) and every request
\* is answered
FairSpec == Spec /\ WF_vars(RateLimited \/ Enter) /\ WF_vars(Iterate)

(***************************************************************************)
(* LimSpec follows the counter of the limits decorator of get_FX_latest,   *)
(* on clients of few source currencies and with two answers per request.   *)
(***************************************************************************)
\* the seconds the clock advances in one step
TickSeconds == 10

\* the source_currency lists of the clients
LimSources == {<<>>, <<GBP>>, <<USD, GBP>>}

\* the answers of the upstream: rates for the base asked for, or an error
LimAnswers ==
    {Answer(200, FlatBody(source_currency.items[i + 1].s, D14,
                          <<Entry(JPY, JNum(3)), Entry(EUR, JNum(1))>>)),
     Answer(400, ErrorBody)}

LimConstruct ==
    \E l \in LimSources : __init__(StrList(l), Omitted)

LimCall == StartCall("get_FX_latest", <<>>)

\* a limiter made with raise_on_limit=False: the call past the limit returns
\* without running the body
LimitsWrapper_silent ==
    LET over == elapsed[op] >= limits_period
        n == (IF over THEN 0 ELSE num_calls[op]) + 1
    IN
    /\ pc = "wrapper"
    /\ num_calls' = [num_calls EXCEPT
                        ![op] = IF n > limits_calls THEN limits_calls + 1 ELSE n]
    /\ elapsed' = IF over THEN [elapsed EXCEPT ![op] = 0] ELSE elapsed
    /\ gets' = IF over THEN [gets EXCEPT ![op] = 0] ELSE gets
    /\ IF n > limits_calls
       THEN /\ tries' = tries + 1
            /\ Ends("table", <<>>)
            /\ UNCHANGED <<config, op, call_args, url, FX_df, i, requests,
                           responses, bodies>>
       ELSE RunBody

\* the wrapper of limits(calls=limits_calls, period=limits_period) around the
\* body: when the period is over it starts a new one with num_calls = 0; it
\* counts the try, and raises RateLimitException when the count is above
\* limits_calls, else calls the body.  num_calls stops at limits_calls + 1:
\* beyond that the wrapper acts the same.
LimitsWrapper ==
    LET over == elapsed[op] >= limits_period
        n == (IF over THEN 0 ELSE num_calls[op]) + 1
    IN
    /\ pc = "wrapper"
    /\ num_calls' = [num_calls EXCEPT
                        ![op] = IF n > limits_calls THEN limits_calls + 1 ELSE n]
    /\ elapsed' = IF over THEN [elapsed EXCEPT ![op] = 0] ELSE elapsed
    /\ gets' = IF over THEN [gets EXCEPT ![op] = 0] ELSE gets
    /\ IF n > limits_calls THEN Reject ELSE RunBody

\* an iteration of the loop; its GET falls into the open period of the
\* limiter of the operation, unless that period is over
LimIterate ==
    /\ LoopStep(LimAnswers)
    /\ gets' = [gets EXCEPT
                   ![op] = IF elapsed[op] < limits_period THEN @ + 1 ELSE @]
    /\ UNCHANGED <<num_calls, elapsed>>

\* time passes, at any point of a call or between calls
Tick ==
    /\ \E o \in Ops : elapsed[o] < limits_period
    /\ elapsed' = [o \in Ops |->
                      IF elapsed[o] + TickSeconds > limits_period
                      THEN limits_period ELSE elapsed[o] + TickSeconds]
    /\ UNCHANGED <<pc, config, op, call_args, tries, url, FX_df, i, requests,
                   responses, outcome, result, bodies, num_calls, gets>>

LimNext ==
    LimConstruct \/ LimCall \/ LimitsWrapper \/ LimIterate \/ Return \/ Tick

LimSpec == Init /\ [][LimNext]_vars

(***************************************************************************)
(* Properties.  The expected rows are read off the JSON bodies directly,   *)
(* entry by entry, without the column names of the reshape.                *)
(***************************************************************************)
\* the value stored under a key of a JSON dict
JsonGet(entries, key) ==
    entries[CHOOSE j \in 1..Len(entries) : entries[j].k = key].v

\* the four columns of a row, without its index label
Columns(r) ==
    [date |-> r.date, source_currency |-> r.source_currency,
     target_currency |-> r.target_currency,
     exchange_rate_to_target |-> r.exchange_rate_to_target]

ColumnsOf(df) == [j \in 1..Len(df) |-> Columns(df[j])]

\* the (date, source_currency, target_currency) of a row
Triple(r) == <<r.date, r.source_currency, r.target_currency>>

\* how many times x occurs in the sequence
Count(seq, x) == Cardinality({j \in 1..Len(seq) : seq[j] = x})

\* the two sequences hold the same elements the same number of times
SameRows(a, b) ==
    /\ Len(a) = Len(b)
    /\ \A j \in 1..Len(a) : Count(a, a[j]) = Count(b, a[j])

RECURSIVE Flat(_)
Flat(seqs) == IF seqs = <<>> THEN <<>> ELSE Head(seqs) \o Flat(Tail(seqs))

RECURSIVE SumLen(_)
SumLen(seqs) == IF seqs = <<>> THEN 0 ELSE Len(Head(seqs)) + SumLen(Tail(seqs))

\* a call of the operation has returned a DataFrame
Returned(o) == pc = "done" /\ op = o /\ outcome = "table"

\* the `rates` mappings of the answers of the call, in the order received
RatesOfResponses ==
    [j \in 1..Len(responses) |-> JsonGet(responses[j].json, K_rates).items]

\* one row per target key of one /latest body, from its own date and base
LatestRowsOf(json) ==
    LET rates == JsonGet(json, K_rates).items IN
    [k \in 1..Len(rates) |->
        [date |-> JsonGet(json, K_date).s,
         source_currency |-> JsonGet(json, K_base).s,
         target_currency |-> rates[k].k,
         exchange_rate_to_target |-> rates[k].v.n]]

\* C1: when get_FX_latest returns, every source currency was answered, the
\* rows of the result are exactly one per (answer, target key of its rates),
\* each with the answer's date and base, the key and the value stored under
\* it, and the row count is the sum of the sizes of the rates mappings.
C1_LatestRows ==
    Returned("get_FX_latest") =>
        /\ Len(responses) = Len(source_currency.items)
        /\ SameRows(ColumnsOf(result),
                    Flat([j \in 1..Len(responses) |->
                             LatestRowsOf(responses[j].json)]))
        /\ Len(result) = SumLen(RatesOfResponses)

\* two source currencies answered with bodies of two and of one target, one
\* of them with a base that is not the currency asked for
C1_Witness ==
    /\ Returned("get_FX_latest")
    /\ Len(responses) = 2
    /\ Len(result) = 3
    /\ \E j \in 1..2 :
          JsonGet(responses[j].json, K_base).s # source_currency.items[j].s

StrLeq(a, b) == a = b \/ StrLess(a, b)

\* one row per (date key, target key) of one /history body
RangeRowsOf(json) ==
    LET rates == JsonGet(json, K_rates).items IN
    Flat([d \in 1..Len(rates) |->
            [k \in 1..Len(rates[d].v.items) |->
                [date |-> rates[d].k,
                 source_currency |-> JsonGet(json, K_base).s,
                 target_currency |-> rates[d].v.items[k].k,
                 exchange_rate_to_target |-> rates[d].v.items[k].v.n]]])

\* the date keys of the answers of the call
DateKeys ==
    UNION {{RatesOfResponses[j][d].k : d \in 1..Len(RatesOfResponses[j])} :
              j \in 1..Len(responses)}

InRange(d) == StrLeq(call_args[1].s, d) /\ StrLeq(d, call_args[2].s)

C3_DateIsArgument ==
    Returned("get_FX_date") =>
        \A j \in 1..Len(result) : result[j].date = call_args[1].s

\* (date, source_currency, target_currency) of a comes no later than that of b
KeyLeq(a, b) ==
    \/ StrLess(a.date, b.date)
    \/ /\ a.date = b.date
       /\ StrLess(a.source_currency, b.source_currency)
    \/ /\ a.date = b.date
       /\ a.source_currency = b.source_currency
       /\ StrLeq(a.target_currency, b.target_currency)

\* C4: the DataFrame any of the three query operations returns is sorted
\* ascending by (date, source_currency, target_currency), and its index is
\* 0..n-1 in that order.
C4_SortedDenseIndex ==
    (pc = "done" /\ outcome = "table") =>
        /\ \A j \in 1..Len(result) : result[j].index = j - 1
        /\ \A j \in 1..Len(result) : \A k \in j..Len(result) :
              KeyLeq(result[j], result[k])

\* a result of get_FX_latest whose rows were appended in another order
C4_Witness ==
    /\ Returned("get_FX_latest")
    /\ Len(result) = 3
    /\ ColumnsOf(result) #
          Flat([j \in 1..Len(responses) |-> LatestRowsOf(responses[j].json)])

\* the answers of the call whose status is not a success
Failed == {j \in 1..Len(responses) : responses[j].status \notin 200..299}

\* C5: once an answer has a non-success status the call has ended with the
\* HTTP error and without a DataFrame, and the failed request is the last
\* one issued: the source currencies after it are never asked for.
C5_HTTPErrorFailsCall ==
    \A j \in Failed :
        /\ pc = "done"
        /\ outcome = "HTTPError"
        /\ result = <<>>
        /\ FX_df = <<>>
        /\ Len(responses) = j
        /\ Len(requests) = j

\* the first source currency was answered, the second failed, a third waits
C5_Witness ==
    /\ Failed = {2}
    /\ outcome = "HTTPError"
    /\ op = "get_FX_latest"
    /\ Len(source_currency.items) > Len(requests)

\* the date arguments of the call that are not a string in YYYY-MM-DD format
BadDateArgs ==
    IF op \in {"get_FX_date", "get_FX_date_range"}
    THEN {k \in 1..Len(call_args) :
             ~IsStr(call_args[k]) \/ ~Strptime(call_args[k].s)}
    ELSE {}

\* the error the first bad date argument asks for
ErrorOfFirstBad ==
    LET k == CHOOSE m \in BadDateArgs : \A n \in BadDateArgs : m <= n IN
    IF IsStr(call_args[k]) THEN "ValueError" ELSE "TypeError"

\* C6: a call of get_FX_date or get_FX_date_range with a bad date argument
\* issues no request and never enters the loop; as soon as the limiter lets
\* an attempt run the body, the call ends with the type error for a
\* non-string and the value error for a string that does not parse (the only
\* other end is the limiter rejecting all limits_max_tries attempts).
C6_BadDateNoRequest ==
    BadDateArgs # {} =>
        /\ requests = <<>>
        /\ responses = <<>>
        /\ pc \in {"wrapper", "done"}
        /\ pc = "done" =>
              \/ outcome = ErrorOfFirstBad
              \/ outcome = "RateLimitException" /\ tries = limits_max_tries

\* get_FX_date_range with a non-string end_at on a client of two source
\* currencies has raised the type error
C6_Witness ==
    /\ pc = "done"
    /\ op = "get_FX_date_range"
    /\ BadDateArgs = {2}
    /\ ~IsStr(call_args[2])
    /\ outcome = "TypeError"
    /\ Len(source_currency.items) = 2
    /\ requests = <<>>

\* a string, or a list whose elements are all strings
StringOrStrings(x) ==
    \/ x.t = "str"
    \/ x.t = "list" /\ \A j \in 1..Len(x.items) : x.items[j].t = "str"

\* the target_currency argument is left out, None, or a string or strings
ProperTarget ==
    \/ arg_target.t \in {"omitted", "NoneType"}
    \/ StringOrStrings(arg_target)

\* C7: FX(source_currency, ...) raises the type error whenever the source
\* argument is not a string or a list of strings only; with such a source
\* (and a proper target) it succeeds and stores [s] for a string s and the
\* list itself, elements in order, for a list; with no arguments it stores
\* source_currency = ["GBP"] and target_currency = None.
C7_InitSource ==
    pc # "new" =>
        /\ (arg_source.t # "omitted" /\ ~StringOrStrings(arg_source)) =>
              pc = "init_failed"
        /\ (arg_source.t = "str" /\ ProperTarget) =>
              /\ pc # "init_failed"
              /\ source_currency = [t |-> "list", items |-> <<arg_source>>]
        /\ (arg_source.t = "list" /\ StringOrStrings(arg_source) /\ ProperTarget) =>
              /\ pc # "init_failed"
              /\ source_currency = arg_source
        /\ (arg_source.t = "omitted" /\ arg_target.t = "omitted") =>
              /\ pc # "init_failed"
              /\ source_currency = [t |-> "list", items |-> <<[t |-> "str", s |-> GBP]>>]
              /\ target_currency = [t |-> "NoneType"]

\* a client built from the list ["USD", "GBP"] holds that list in that order
C7_Witness ==
    /\ pc = "idle"
    /\ arg_source.t = "list"
    /\ Len(arg_source.items) = 2
    /\ source_currency.items = <<[t |-> "str", s |-> USD], [t |-> "str", s |-> GBP]>>

\* C8: FX(..., target_currency) raises the type error for every target that
\* is not None and is neither a string nor a list of strings only.
C8_InitTarget ==
    (pc # "new" /\ ~ProperTarget) => pc = "init_failed"

\* the base values of the answers of the call, in the order received
Bases == [j \in 1..Len(responses) |-> JsonGet(responses[j].json, K_base).s]

NoDuplicateTriples ==
    \A j \in 1..Len(result) : \A k \in 1..Len(result) :
        Triple(result[j]) = Triple(result[k]) => j = k

\* C9 as stated: the DataFrame any successful query returns holds no two
\* rows with the same (date, source_currency, target_currency), for every
\* client that construction accepts.
C9_NoDuplicates ==
    (pc = "done" /\ outcome = "table") => NoDuplicateTriples

\* C9 as amended: the DataFrame a successful query returns holds no two rows
\* with the same (date, source_currency, target_currency) whenever no two
\* answers of the call carry the same base.
C9_NoDuplicatesDistinctBases ==
    (/\ pc = "done"
     /\ outcome = "table"
     /\ \A j \in 1..Len(Bases) : \A k \in 1..Len(Bases) :
           Bases[j] = Bases[k] => j = k)
    => NoDuplicateTriples

\* two answers of different bases with the same date and the same targets
C9_Witness ==
    /\ Returned("get_FX_latest")
    /\ Len(responses) = 2
    /\ Bases[1] # Bases[2]
    /\ Len(result) = 4
    /\ result[1].date = result[4].date

\* C10: with source currencies [A, B], A # B, each answered with its own
\* base, the rows of the result with source_currency A (and those with B) are
\* the rows of the single-source result for the same answer, in the same
\* order, and the result is, row for row, the one the same answers give for
\* [B, A].
C10_MergeOfSingleSources ==
    (/\ pc = "done"
     /\ outcome = "table"
     /\ Len(source_currency.items) = 2
     /\ source_currency.items[1].s # source_currency.items[2].s
     /\ \A j \in 1..2 : Bases[j] = source_currency.items[j].s)
    => LET jsonA == responses[1].json
           jsonB == responses[2].json
           OfA(r) == r.source_currency = Bases[1]
           OfB(r) == r.source_currency = Bases[2]
       IN  /\ ColumnsOf(SelectSeq(result, OfA)) =
                 ColumnsOf(QueryTable(op, call_args, <<jsonA>>))
           /\ ColumnsOf(SelectSeq(result, OfB)) =
                 ColumnsOf(QueryTable(op, call_args, <<jsonB>>))
           /\ result = QueryTable(op, call_args, <<jsonB, jsonA>>)

\* a result for ["USD", "GBP"] in which rows of the two alternate
C10_Witness ==
    /\ Returned("get_FX_date_range")
    /\ Len(source_currency.items) = 2
    /\ Bases = <<USD, GBP>>
    /\ \A j \in 1..2 : Bases[j] = source_currency.items[j].s
    /\ Len(result) = 6
    /\ result[1].source_currency = GBP
    /\ result[2].source_currency = USD
    /\ result[3].source_currency = GBP

\* a call is under way or has just ended
InCall == pc \in {"wrapper", "loop", "done"}

\* C11: the requests of a call are issued one per source currency in the
\* order of self.source_currency: the j-th goes to the url of the operation
\* with base = the j-th source currency and symbols = the configured targets;
\* a request is issued only when every request before it was answered with a
\* status that passes the check; and a call that returns a DataFrame has
\* issued exactly one request per source currency.
C11_OneRequestPerSourceInOrder ==
    InCall =>
        /\ Len(responses) = Len(requests)
        /\ Len(requests) <= Len(source_currency.items)
        /\ \A j \in 1..Len(requests) :
              /\ requests[j].url = UrlOf(op, call_args)
              /\ requests[j].params.base = source_currency.items[j]
              /\ requests[j].params.symbols = target_currency
              /\ j < Len(requests) => responses[j].status \in 200..299
        /\ outcome = "table" => Len(requests) = Len(source_currency.items)

\* get_FX_date_range on ["USD", "GBP", "EUR"] with targets has returned
C11_Witness ==
    /\ Returned("get_FX_date_range")
    /\ Len(requests) = 3
    /\ requests[1].params.base # requests[2].params.base
    /\ requests[2].params.base # requests[3].params.base
    /\ target_currency.t = "list"

\* C12: after every successful construction self.source_currency is not
\* empty, and a query that returns has issued at least one request.
C12_SourcesNonEmpty ==
    /\ pc \notin {"new", "init_failed"} => source_currency.items # <<>>
    /\ (pc = "done" /\ outcome = "table") => requests # <<>>

\* C13: a call makes at most limits_max_tries tries; it ends with the
\* rate-limit exception only when all of them were rejected and the body
\* never ran; and every call that was started ends.
C13_CallTerminates ==
    /\ [](tries <= limits_max_tries)
    /\ [](outcome = "RateLimitException" =>
             tries = limits_max_tries /\ bodies = 0)
    /\ (pc = "wrapper") ~> (pc = "done")

\* the body ran at the last try, after limits_max_tries - 1 rejections
C13_Witness ==
    /\ pc = "done"
    /\ outcome = "table"
    /\ tries = limits_max_tries
    /\ bodies = 1
    /\ Len(requests) = 2

\* C14: in one period of the limiter of an operation no more than
\* limits_calls GET requests are issued through that operation.
C14_RequestsPerPeriod ==
    \A o \in Ops : gets[o] <= limits_calls

\* the exceptions the body of a query raises
BodyErrors == {"TypeError", "ValueError", "HTTPError", "KeyError"}

\* C15: the body of a query runs at most once per call; a call that ends
\* with an argument error or an HTTP error has run it exactly once and ends
\* in the try that raised it, with no request issued after the error; the
\* tries before that one, if any, were rejected by the limiter.
C15_BodyErrorsNotRetried ==
    /\ bodies <= 1
    /\ InCall => bodies <= tries /\ tries <= limits_max_tries
    /\ (pc = "done" /\ outcome \in BodyErrors) =>
          /\ bodies = 1
          /\ Len(requests) <= Len(source_currency.items)
          /\ outcome = "HTTPError" => Failed = {Len(responses)}
          /\ outcome \in {"TypeError", "ValueError"} => requests = <<>>

\* an HTTP error at the second request, in a try that followed a rejected one
C15_Witness ==
    /\ pc = "done"
    /\ outcome = "HTTPError"
    /\ tries = 2
    /\ bodies = 1
    /\ Len(requests) = 2

\* the outcome the body gives for the answers received, by the configuration
\* and the arguments of the call alone
OutcomeOfBody ==
    IF ValidationError(op, call_args) # "none"
    THEN ValidationError(op, call_args)
    ELSE IF Failed # {} THEN "HTTPError"
    ELSE IF \E j \in 1..Len(responses) : FlattenRaises(op, responses[j].json)
    THEN "KeyError"
    ELSE IF Len(responses) = Len(source_currency.items) THEN "table"
    ELSE "none"

TableOfBody ==
    IF OutcomeOfBody = "table"
    THEN QueryTable(op, call_args, [j \in 1..Len(responses) |-> responses[j].json])
    ELSE <<>>

\* C16 as stated: how a call ends is given by the configuration, the
\* arguments and the answers to its requests alone, whatever calls came
\* before it.
C16_OutcomeOfCallOnly ==
    pc = "done" => outcome = OutcomeOfBody /\ result = TableOfBody

\* C16 as amended: a call ends either as the configuration, the arguments
\* and the answers to its requests alone give, or with the rate-limit
\* exception before its body has run and without a request, which happens
\* only when the limiter of the operation has counted more than limits_calls
\* tries in its period.
C16_OutcomeOfCallOrRateLimit ==
    pc = "done" =>
        \/ outcome = OutcomeOfBody /\ result = TableOfBody
        \/ /\ outcome = "RateLimitException"
           /\ result = <<>>
           /\ requests = <<>>
           /\ bodies = 0
           /\ num_calls[op] > limits_calls

\* the last call the limiter lets through in a period returns its table
C16_Witness ==
    /\ Returned("get_FX_latest")
    /\ num_calls["get_FX_latest"] = limits_calls
    /\ Len(result) = 4

\* C17: a rejected try issues no request: while the body has not run the
\* call has no request, and a call that ends with the rate-limit exception
\* has none; over all its tries a call issues at most one request per source
\* currency, never two for the same position of self.source_currency.
C17_RejectedTryNoRequest ==
    InCall =>
        /\ bodies = 0 => requests = <<>> /\ responses = <<>>
        /\ outcome = "RateLimitException" => requests = <<>> /\ bodies = 0
        /\ Len(requests) <= Len(source_currency.items)
        /\ Len(requests) <= i + 1
        /\ tries <= limits_max_tries

\* three requests after two rejected tries
C17_Witness ==
    /\ pc = "done"
    /\ tries = 3
    /\ bodies = 1
    /\ Len(requests) = 3
    /\ outcome = "table"

====
